---- MODULE Spec2Model ----
(***************************************************************************)
(* docshuffle-rs: two-phase shuffle of text records.                       *)
(*   coarse phase: every line of every input document is appended to one   *)
(*                 of K local cell files, chosen at random, through a        *)
(*                 Mutex<BufWriter<File>> per cell;                          *)
(*   fine phase:   every cell is read back, shuffled in memory, cut into     *)
(*                 chunks of docs_per_jsonl lines and written as numbered    *)
(*                 shards.                                                   *)
(* Files are modelled as byte sequences; a byte is one of the strings of     *)
(* Byte below.  Rayon tasks are modelled as interleaved processes; a panic   *)
(* (every .unwrap() on an Err) ends the task and fails the run at the join.  *)
(***************************************************************************)
EXTENDS Integers, Sequences, FiniteSets, Bags, TLC

\* ------------------------------------------------------------------ bounds
MaxK == 2
MaxD == 2
\* capacity of a BufWriter, in bytes (8192 in std, scaled down)
BufCap == 4

\* ------------------------------------------------------------------- bytes
LF == "LF"
CR == "CR"
Byte == {"a", "b", CR, LF}

Docs == {"d1", "d2"}
CellIds == 0..(MaxK - 1)

\* the inputs a run may be given: no record at all; three records of which
\* two are equal; a long record that ends with CR and a last line without LF
Corpora ==
  { [d \in Docs |-> << >>],
    [d \in Docs |-> IF d = "d1" THEN <<"a", LF, "b", LF>> ELSE <<"a", LF>>],
    [d \in Docs |-> IF d = "d1" THEN <<"a", "b", CR, CR, LF>> ELSE <<"b">>] }
\* content of local_mapper_0.bin when an earlier run left it behind
StaleCell == <<"a", LF>>

VARIABLES
  num_local_cells,    \* args.num_local_cells (K)
  docs_per_jsonl,     \* args.docs_per_jsonl (D)
  remove_locals,      \* args.remove_locals
  docFile,            \* input document -> bytes on disk
  docExists,          \* input document -> still on disk
  cellFile,           \* cell index -> bytes of local_mapper_<i>.bin on disk
  cellExists,         \* cell index -> file exists
  shards,             \* shard number -> bytes of the shard file on disk
  pc,                 \* position of main
  result,             \* <<num_output_files>> once finalize_chunks returned
  writers,            \* cell index -> bytes held in the BufWriter's buffer
  guard,              \* cell index -> the tasks holding the Mutex
  poisoned,           \* cell index -> Mutex poisoned by a panic
  dpc,                \* document task -> position
  dlines,             \* document task -> lines still to append
  didx,               \* document task -> cell index drawn for the current line
  fpc,                \* flush task (one per writer) -> position
  cpc,                \* cell task -> position
  clines,             \* cell task -> shuffled lines not yet written
  cnum,               \* cell task -> shard number fetched for the current chunk
  counter,            \* AtomicUsize counter
  output_file_count,  \* AtomicUsize output_file_count
  appended,           \* (history) cell index -> lines whose write_all began
  bufOwner,           \* (history) cell index -> documents with bytes in the buffer
  opened,             \* (history) cell index -> bytes of the cell when opened
  sealed,             \* (history) cell index -> bytes of the cell at the barrier
  written,            \* (history) set of shard writes [id, cell, seq, lines]
  docReads,           \* (history) input document -> times it was read
  cellReads           \* (history) cell index -> times its file was read

cfgVars == <<num_local_cells, docs_per_jsonl, remove_locals>>
diskVars == <<docFile, docExists, cellFile, cellExists, shards>>
sinkVars == <<writers, guard, poisoned>>
docVars == <<dpc, dlines, didx>>
fineVars == <<cpc, clines, cnum, counter, output_file_count>>
histVars == <<appended, bufOwner, opened, sealed, written, docReads, cellReads>>
vars == <<cfgVars, diskVars, pc, result, sinkVars, docVars, fpc, fineVars, histVars>>

Cells == 0..(num_local_cells - 1)

\* ---------------------------------------------------------------- helpers
Range(s) == {s[i] : i \in DOMAIN s}

RECURSIVE Concat(_)
Concat(ss) == IF ss = << >> THEN << >> ELSE Head(ss) \o Concat(Tail(ss))

BagOfSeq(s) == [x \in Range(s) |-> Cardinality({i \in DOMAIN s : s[i] = x})]

RECURSIVE BagSum(_, _)
BagSum(f, S) ==
  IF S = {} THEN EmptyBag
  ELSE LET x == CHOOSE y \in S : TRUE IN f[x] (+) BagSum(f, S \ {x})

RECURSIVE Sum(_, _)
Sum(f, S) ==
  IF S = {} THEN 0
  ELSE LET x == CHOOSE y \in S : TRUE IN f[x] + Sum(f, S \ {x})

Min(a, b) == IF a < b THEN a ELSE b

\* a shuffle that loses the first line
OrderingsLossy(s) == IF s = << >> THEN {s} ELSE {Tail(s)}

\* lines.shuffle(&mut thread_rng()): all orderings of the sequence s
Orderings(s) ==
  LET n == Len(s)
      P == {p \in [1..n -> 1..n] : \A i, j \in 1..n : p[i] = p[j] => i = j}
  IN {[i \in 1..n |-> s[p[i]]] : p \in P}

\* ------------------------------------------------------- pure functions
\* BufRead::lines: split at LF; a line that ended with LF loses the LF and
\* then one CR if it ends with one; a last line without LF is kept as it is
StripCR(l) ==
  IF Len(l) > 0 /\ l[Len(l)] = CR THEN SubSeq(l, 1, Len(l) - 1) ELSE l

RECURSIVE SplitLines(_, _)
SplitLines(bytes, cur) ==
  IF bytes = << >> THEN (IF cur = << >> THEN << >> ELSE <<cur>>)
  ELSE IF Head(bytes) = LF
       THEN <<StripCR(cur)>> \o SplitLines(Tail(bytes), << >>)
       ELSE SplitLines(Tail(bytes), Append(cur, Head(bytes)))

Lines(bytes) == SplitLines(bytes, << >>)

\* line.into_bytes(); line.push(b'\n')
Terminated(line) == Append(line, LF)

\* rng.gen::<usize>() % num_local_cells: the indices a line may draw
DrawCells == Cells

\* a lock that never waits
GuardIgnored(k) == TRUE

\* writers[idx].lock(): the Mutex is acquired only when no task holds it
GuardFree(k) == guard[k] = {}

\* a guard that outlives the statement
GuardKept(g, d) == g

\* the MutexGuard of writers[idx].lock() is a temporary: dropped as the
\* statement ends
GuardDropped(g, d) == g \ {d}

\* BufWriter::write_all: what happens to the buffer before the copy
NeedsFlush(k, line) == Len(line) > BufCap - Len(writers[k])
WritesThrough(line) == Len(line) >= BufCap

\* a chunk one line too long
FirstChunkLong(ls) == SubSeq(ls, 1, Min(docs_per_jsonl + 1, Len(ls)))

\* the line after a chunk skipped
RestChunksSkip(ls) == SubSeq(ls, Min(docs_per_jsonl, Len(ls)) + 2, Len(ls))

\* lines.chunks(docs_per_jsonl).next(): the first chunk of what is left
FirstChunk(ls) == SubSeq(ls, 1, Min(docs_per_jsonl, Len(ls)))
RestChunks(ls) == SubSeq(ls, Min(docs_per_jsonl, Len(ls)) + 1, Len(ls))

\* write_chunk: every line followed by b'\n'
ChunkBytes(chunk) == Concat([i \in DOMAIN chunk |-> Terminated(chunk[i])])

\* an addition that is lost
FetchStoreLost(c) == c

\* a number that does not come from the shared counter
FetchValueFresh(c) == 0

\* the value after the addition returned
FetchValueAfter(c) == c + 1

\* counter.fetch_add(1): the value returned
FetchValue(c) == c

\* fetch_add(1): the value stored
FetchStore(c) == c + 1

\* storage collaborators (crate::io): decompressed bytes of a file, and the
\* file a write leaves behind (overwrite)
ReadPathbufToMem(file) == file
WriteMemToPathbuf(contents) == contents

\* ---------------------------------------------------------------- Init
Init ==
  /\ num_local_cells \in 0..MaxK
  /\ docs_per_jsonl \in 0..MaxD
  /\ remove_locals \in BOOLEAN
  /\ docFile \in Corpora
  /\ docExists = [d \in Docs |-> TRUE]
  /\ cellExists \in [CellIds -> BOOLEAN]
  /\ \A k \in CellIds : cellExists[k] => k = 0 /\ k < num_local_cells
  /\ cellFile = [k \in CellIds |-> IF cellExists[k] THEN StaleCell ELSE << >>]
  /\ shards = << >>
  /\ pc = "start"
  /\ result = << >>
  /\ writers = [k \in CellIds |-> << >>]
  /\ guard = [k \in CellIds |-> {}]
  /\ poisoned = [k \in CellIds |-> FALSE]
  /\ dpc = [d \in Docs |-> "idle"]
  /\ dlines = [d \in Docs |-> << >>]
  /\ didx = [d \in Docs |-> 0]
  /\ fpc = [k \in CellIds |-> "idle"]
  /\ cpc = [k \in CellIds |-> "idle"]
  /\ clines = [k \in CellIds |-> << >>]
  /\ cnum = [k \in CellIds |-> 0]
  /\ counter = 0
  /\ output_file_count = 0
  /\ appended = [k \in CellIds |-> << >>]
  /\ bufOwner = [k \in CellIds |-> {}]
  /\ opened = [k \in CellIds |-> << >>]
  /\ sealed = [k \in CellIds |-> << >>]
  /\ written = {}
  /\ docReads = [d \in Docs |-> 0]
  /\ cellReads = [k \in CellIds |-> 0]

\* ------------------------------------------------------------ coarse phase
\* build_local_mappers: open (append, create) one file per cell; an open that
\* fails panics
BuildLocalMappers ==
  /\ pc = "start"
  /\ \/ /\ pc' = "coarse"
        /\ cellExists' = [k \in CellIds |-> cellExists[k] \/ k \in Cells]
        /\ opened' = cellFile
     \/ /\ num_local_cells > 0
        /\ pc' = "failed"
        /\ UNCHANGED <<cellExists, opened>>
  /\ UNCHANGED <<cfgVars, docFile, docExists, cellFile, shards, result, sinkVars,
                 docVars, fpc, fineVars, appended, bufOwner, sealed, written,
                 docReads, cellReads>>

\* coarse_shuffle_single: read_pathbuf_to_mem(path).unwrap()
ReadDoc(d) ==
  /\ pc = "coarse"
  /\ dpc[d] = "idle"
  /\ \/ /\ docExists[d]
        /\ dpc' = [dpc EXCEPT ![d] = "loop"]
        /\ dlines' = [dlines EXCEPT ![d] = Lines(ReadPathbufToMem(docFile[d]))]
     \/ /\ dpc' = [dpc EXCEPT ![d] = "panicked"]
        /\ UNCHANGED dlines
  /\ docReads' = [docReads EXCEPT ![d] = @ + 1]
  /\ UNCHANGED <<cfgVars, diskVars, pc, result, sinkVars, didx, fpc, fineVars,
                 appended, bufOwner, opened, sealed, written, cellReads>>

\* BufWriter::flush: the buffer written out to the file
FlushBuf(k) ==
  /\ cellFile' = [cellFile EXCEPT ![k] = @ \o writers[k]]
  /\ writers' = [writers EXCEPT ![k] = << >>]
  /\ bufOwner' = [bufOwner EXCEPT ![k] = {}]

\* one iteration of the loop, up to the middle of write_all: draw idx, lock
\* writers[idx], make room in the buffer, copy the line without its last byte
\* (a task that was started runs on whatever main does: only the join of
\* for_each keeps main from going on before the task ended)
WriteBegin(d) ==
  /\ dpc[d] = "loop"
  /\ dlines[d] # << >>
  /\ LET line == Terminated(Head(dlines[d]))
         body == SubSeq(line, 1, Len(line) - 1)
     IN
     \/ \* % 0 panics
        /\ num_local_cells = 0
        /\ dpc' = [dpc EXCEPT ![d] = "panicked"]
        /\ UNCHANGED <<cellFile, sinkVars, didx, appended, bufOwner>>
     \/ \E idx \in DrawCells :
          \/ \* lock().unwrap() on a poisoned Mutex
             /\ poisoned[idx]
             /\ dpc' = [dpc EXCEPT ![d] = "panicked"]
             /\ UNCHANGED <<cellFile, sinkVars, didx, appended, bufOwner>>
          \/ /\ ~poisoned[idx]
             /\ GuardFree(idx)
             /\ didx' = [didx EXCEPT ![d] = idx]
             /\ \/ \* the write to the file fails: panic with the guard held
                   /\ NeedsFlush(idx, line) \/ WritesThrough(line)
                   /\ dpc' = [dpc EXCEPT ![d] = "panicked"]
                   /\ poisoned' = [poisoned EXCEPT ![idx] = TRUE]
                   /\ UNCHANGED <<cellFile, writers, guard, appended, bufOwner>>
                \/ /\ dpc' = [dpc EXCEPT ![d] = "writing"]
                   /\ guard' = [guard EXCEPT ![idx] = {d}]
                   /\ appended' = [appended EXCEPT ![idx] = Append(@, Head(dlines[d]))]
                   /\ LET flushed == NeedsFlush(idx, line)
                          file0 == IF flushed THEN cellFile[idx] \o writers[idx]
                                   ELSE cellFile[idx]
                          buf0 == IF flushed THEN << >> ELSE writers[idx]
                          own0 == IF flushed THEN {} ELSE bufOwner[idx]
                      IN IF WritesThrough(line)
                         THEN /\ cellFile' = [cellFile EXCEPT ![idx] = file0 \o body]
                              /\ writers' = [writers EXCEPT ![idx] = buf0]
                              /\ bufOwner' = [bufOwner EXCEPT ![idx] = own0]
                         ELSE /\ cellFile' = [cellFile EXCEPT ![idx] = file0]
                              /\ writers' = [writers EXCEPT ![idx] = buf0 \o body]
                              /\ bufOwner' = [bufOwner EXCEPT ![idx] = own0 \cup {d}]
                   /\ UNCHANGED poisoned
  /\ UNCHANGED <<cfgVars, docFile, docExists, cellExists, shards, pc, result, dlines,
                 fpc, fineVars, opened, sealed, written, docReads, cellReads>>

\* the rest of write_all (the last byte of the line), then the guard is dropped
WriteEnd(d) ==
  /\ dpc[d] = "writing"
  /\ LET idx == didx[d]
         line == Terminated(Head(dlines[d]))
         last == <<line[Len(line)]>>
     IN /\ IF WritesThrough(line)
           THEN /\ cellFile' = [cellFile EXCEPT ![idx] = @ \o last]
                /\ UNCHANGED <<writers, bufOwner>>
           ELSE /\ writers' = [writers EXCEPT ![idx] = @ \o last]
                /\ bufOwner' = [bufOwner EXCEPT ![idx] = @ \cup {d}]
                /\ UNCHANGED cellFile
        /\ guard' = [guard EXCEPT ![idx] = GuardDropped(@, d)]
  /\ dlines' = [dlines EXCEPT ![d] = Tail(@)]
  /\ dpc' = [dpc EXCEPT ![d] = "loop"]
  /\ UNCHANGED <<cfgVars, docFile, docExists, cellExists, shards, pc, result, poisoned,
                 didx, fpc, fineVars, appended, opened, sealed, written,
                 docReads, cellReads>>

\* a removal that ignores the flag
RemoveAlways == TRUE

\* if remove_locals { fs::remove_file(..) }
RemoveRequested == remove_locals

\* after coarse_shuffle_single returns: remove the document if remove_locals
DocFinish(d) ==
  /\ dpc[d] = "loop"
  /\ dlines[d] = << >>
  /\ \/ /\ ~RemoveRequested
        /\ dpc' = [dpc EXCEPT ![d] = "done"]
        /\ UNCHANGED docExists
     \/ /\ RemoveRequested
        /\ dpc' = [dpc EXCEPT ![d] = "done"]
        /\ docExists' = [docExists EXCEPT ![d] = FALSE]
     \/ /\ RemoveRequested
        /\ dpc' = [dpc EXCEPT ![d] = "panicked"]
        /\ UNCHANGED docExists
  /\ UNCHANGED <<cfgVars, docFile, cellFile, cellExists, shards, pc, result, sinkVars,
                 dlines, didx, fpc, fineVars, histVars>>

\* a for_each that returns at once
DocsJoinedAtOnce == TRUE

\* a join that returns with the first document task
DocsJoinedEarly == \E d \in Docs : dpc[d] = "done"

\* input_paths.par_iter().for_each returns once every document task ended
DocsJoined == \A d \in Docs : dpc[d] = "done"
DocsPanicked ==
  /\ \E d \in Docs : dpc[d] = "panicked"
  /\ \A d \in Docs : dpc[d] \in {"idle", "done", "panicked"}

CoarseJoin ==
  /\ pc = "coarse"
  /\ \/ DocsJoined /\ pc' = "flush"
     \/ DocsPanicked /\ pc' = "failed"
  /\ UNCHANGED <<cfgVars, diskVars, result, sinkVars, docVars, fpc, fineVars, histVars>>

\* writers.par_iter().for_each(|writer| writer.lock().unwrap().flush().unwrap())
Flush(k) ==
  /\ pc = "flush"
  /\ k \in Cells
  /\ fpc[k] = "idle"
  /\ GuardFree(k)
  /\ \/ /\ fpc' = [fpc EXCEPT ![k] = "done"]
        /\ FlushBuf(k)
     \/ /\ fpc' = [fpc EXCEPT ![k] = "panicked"]
        /\ UNCHANGED <<cellFile, writers, bufOwner>>
  /\ UNCHANGED <<cfgVars, docFile, docExists, cellExists, shards, pc, result, guard,
                 poisoned, docVars, fineVars, appended, opened, sealed, written,
                 docReads, cellReads>>

FlushesJoined == \A k \in Cells : fpc[k] = "done"
FlushesPanicked ==
  /\ \E k \in Cells : fpc[k] = "panicked"
  /\ \A k \in Cells : fpc[k] \in {"idle", "done", "panicked"}

\* coarse_shuffle returns Ok(filenames); main calls finalize_chunks
FlushJoin ==
  /\ pc = "flush"
  /\ \/ /\ FlushesJoined
        /\ pc' = "fine"
        /\ sealed' = cellFile
     \/ /\ FlushesPanicked
        /\ pc' = "failed"
        /\ UNCHANGED sealed
  /\ UNCHANGED <<cfgVars, diskVars, result, sinkVars, docVars, fpc, fineVars,
                 appended, bufOwner, opened, written, docReads, cellReads>>

\* -------------------------------------------------------------- fine phase
\* the closure of finalize_chunks up to the chunk loop: read the cell, collect
\* its lines, shuffle them; chunks(0) panics
ReadCell(k) ==
  /\ pc = "fine"
  /\ k \in Cells
  /\ cpc[k] = "idle"
  /\ \/ /\ cellExists[k]
        /\ docs_per_jsonl > 0
        /\ \E ls \in Orderings(Lines(ReadPathbufToMem(cellFile[k]))) :
             clines' = [clines EXCEPT ![k] = ls]
        /\ cpc' = [cpc EXCEPT ![k] = "chunk"]
     \/ /\ cellExists[k]
        /\ docs_per_jsonl = 0
        /\ cpc' = [cpc EXCEPT ![k] = "panicked"]
        /\ UNCHANGED clines
     \/ /\ cpc' = [cpc EXCEPT ![k] = "panicked"]
        /\ UNCHANGED clines
  /\ cellReads' = [cellReads EXCEPT ![k] = @ + 1]
  /\ UNCHANGED <<cfgVars, diskVars, pc, result, sinkVars, docVars, fpc, cnum, counter,
                 output_file_count, appended, bufOwner, opened, sealed, written,
                 docReads>>

\* write_chunk: counter.fetch_add(1, SeqCst) names the shard
FetchCounter(k) ==
  /\ pc = "fine"
  /\ cpc[k] = "chunk"
  /\ clines[k] # << >>
  /\ cnum' = [cnum EXCEPT ![k] = FetchValue(counter)]
  /\ counter' = FetchStore(counter)
  /\ cpc' = [cpc EXCEPT ![k] = "count"]
  /\ UNCHANGED <<cfgVars, diskVars, pc, result, sinkVars, docVars, fpc, clines,
                 output_file_count, histVars>>

\* write_chunk: output_counter.fetch_add(1, SeqCst)
FetchOutput(k) ==
  /\ pc = "fine"
  /\ cpc[k] = "count"
  /\ output_file_count' = FetchStore(output_file_count)
  /\ cpc' = [cpc EXCEPT ![k] = "write"]
  /\ UNCHANGED <<cfgVars, diskVars, pc, result, sinkVars, docVars, fpc, clines, cnum,
                 counter, histVars>>

\* write_chunk: write_mem_to_pathbuf(&contents, &output_path).unwrap()
WriteShard(k) ==
  /\ pc = "fine"
  /\ cpc[k] = "write"
  /\ \/ /\ shards' = (cnum[k] :> WriteMemToPathbuf(ChunkBytes(FirstChunk(clines[k]))))
                       @@ shards
        /\ written' = written \cup
             {[id |-> cnum[k], cell |-> k,
               seq |-> Cardinality({w \in written : w.cell = k}) + 1,
               lines |-> FirstChunk(clines[k])]}
        /\ clines' = [clines EXCEPT ![k] = RestChunks(@)]
        /\ cpc' = [cpc EXCEPT ![k] = "chunk"]
     \/ /\ cpc' = [cpc EXCEPT ![k] = "panicked"]
        /\ UNCHANGED <<shards, written, clines>>
  /\ UNCHANGED <<cfgVars, docFile, docExists, cellFile, cellExists, pc, result,
                 sinkVars, docVars, fpc, cnum, counter, output_file_count,
                 appended, bufOwner, opened, sealed, docReads, cellReads>>

\* a removal that does not wait for the chunk loop
ChunksDoneEarly(k) == TRUE

\* for chunk in lines.chunks(docs_per_jsonl): the loop is over
ChunksDone(k) == clines[k] = << >>

\* after the chunk loop: remove the cell file if remove_locals
CellFinish(k) ==
  /\ pc = "fine"
  /\ cpc[k] = "chunk"
  /\ ChunksDone(k)
  /\ \/ /\ ~RemoveRequested
        /\ cpc' = [cpc EXCEPT ![k] = "done"]
        /\ UNCHANGED <<cellFile, cellExists>>
     \/ /\ RemoveRequested
        /\ cpc' = [cpc EXCEPT ![k] = "done"]
        /\ cellExists' = [cellExists EXCEPT ![k] = FALSE]
        /\ cellFile' = [cellFile EXCEPT ![k] = << >>]
     \/ /\ RemoveRequested
        /\ cpc' = [cpc EXCEPT ![k] = "panicked"]
        /\ UNCHANGED <<cellFile, cellExists>>
  /\ UNCHANGED <<cfgVars, docFile, docExists, shards, pc, result, sinkVars, docVars,
                 fpc, clines, cnum, counter, output_file_count, histVars>>

\* a join that swallows the panic of a task
CellsJoinedLenient == \A k \in Cells : cpc[k] \in {"done", "panicked"}

CellsJoined == \A k \in Cells : cpc[k] = "done"
CellsPanicked ==
  /\ \E k \in Cells : cpc[k] = "panicked"
  /\ \A k \in Cells : cpc[k] \in {"idle", "done", "panicked"}

\* filenames.par_iter().for_each returns; Ok(output_file_count.into_inner())
FineJoin ==
  /\ pc = "fine"
  /\ \/ /\ CellsJoined
        /\ pc' = "done"
        /\ result' = <<output_file_count>>
     \/ /\ CellsPanicked
        /\ pc' = "failed"
        /\ UNCHANGED result
  /\ UNCHANGED <<cfgVars, diskVars, sinkVars, docVars, fpc, fineVars, histVars>>

\* ------------------------------------------------------------ specification
Next ==
  \/ BuildLocalMappers
  \/ \E d \in Docs : ReadDoc(d)
  \/ \E d \in Docs : WriteBegin(d)
  \/ \E d \in Docs : WriteEnd(d)
  \/ \E d \in Docs : DocFinish(d)
  \/ CoarseJoin
  \/ \E k \in CellIds : Flush(k)
  \/ FlushJoin
  \/ \E k \in CellIds : ReadCell(k)
  \/ \E k \in CellIds : FetchCounter(k)
  \/ \E k \in CellIds : FetchOutput(k)
  \/ \E k \in CellIds : WriteShard(k)
  \/ \E k \in CellIds : CellFinish(k)
  \/ FineJoin

Spec == Init /\ [][Next]_vars

\* the thread pool runs every task it was given and the threads are scheduled:
\* as long as some step can be taken, a step is taken
FairSpec == Init /\ [][Next]_vars /\ WF_vars(Next)

\* ------------------------------------------------------- state functions
\* the records of a file, as the program reads them
RecordBag(bytes) == BagOfSeq(Lines(bytes))

\* the records of all input documents (docFile keeps a removed document's bytes)
InputRecords == BagSum([d \in Docs |-> RecordBag(docFile[d])], Docs)

\* the records of all shard files on disk
ShardRecords == BagSum([i \in DOMAIN shards |-> RecordBag(shards[i])], DOMAIN shards)

\* the records of all cells as they were at the end of the coarse phase
SealedRecords == BagSum([k \in Cells |-> RecordBag(sealed[k])], Cells)

\* the records the cell files held before the run
StaleRecords == BagSum([k \in Cells |-> RecordBag(opened[k])], Cells)

Ceil(n, d) == (n + d - 1) \div d

Succeeded == pc = "done"
Returned == result[1]
WritesOf(k) == {w \in written : w.cell = k}
DocPanicked == \E d \in Docs : dpc[d] = "panicked"
FlushPanicked == \E k \in CellIds : fpc[k] = "panicked"
CellPanicked == \E k \in CellIds : cpc[k] = "panicked"

\* ------------------------------------------------------------------ C1
\* C1: after a successful run with K >= 1 and D >= 1 the records of all shards
\* are, as a multiset, the records of all input documents.
C1_MultisetPreserved ==
  (Succeeded /\ num_local_cells >= 1 /\ docs_per_jsonl >= 1)
    => ShardRecords = InputRecords

\* ------------------------------------------------------------------ C2
\* C2: a removed input document has none of its records left in the buffer of
\* a cell sink: all of them were flushed to the cell before the removal.
C2_DeletedOnlyAfterFlush ==
  \A d \in Docs : ~docExists[d] => \A k \in CellIds : d \notin bufOwner[k]

\* ------------------------------------------------------------------ C3
\* C3: a cell task that has started finds every document task finished and
\* every cell sink flushed and empty; no document or flush task runs later.
C3_PhasesSequential ==
  \A k \in CellIds :
    cpc[k] # "idle" =>
      /\ \A d \in Docs : dpc[d] = "done"
      /\ \A c \in Cells : fpc[c] = "done" /\ writers[c] = << >> /\ guard[c] = {}

\* a cell task is writing a shard of records that the coarse phase appended
C3_Witness ==
  \E k \in CellIds : cpc[k] = "write" /\ appended[k] # << >>

\* ------------------------------------------------------------------ C4
\* C4: after a successful run the shard numbers handed out are exactly
\* 0 .. total_shards - 1, each handed out once, and they name the shard files.
C4_DenseShardIds ==
  Succeeded =>
    /\ {w.id : w \in written} = 0..(Returned - 1)
    /\ Cardinality(written) = Returned
    /\ DOMAIN shards = 0..(Returned - 1)

\* a successful run in which two cell tasks each wrote a shard
C4_Witness ==
  /\ Succeeded
  /\ \E k1, k2 \in Cells : k1 # k2 /\ WritesOf(k1) # {} /\ WritesOf(k2) # {}

\* ------------------------------------------------------------------ C5
\* C5: for D >= 1 the returned shard count is the sum over the cells of
\* ceil(cell_size / D), cell_size counted at the end of the coarse phase.
C5_ShardCount ==
  (Succeeded /\ docs_per_jsonl >= 1) =>
    Returned = Sum([k \in Cells |-> Ceil(Len(Lines(sealed[k])), docs_per_jsonl)], Cells)

\* a successful run with a cell whose size is no multiple of D and above D
C5_Witness ==
  /\ Succeeded
  /\ \E k \in Cells :
       /\ Len(Lines(sealed[k])) > docs_per_jsonl
       /\ Len(Lines(sealed[k])) % docs_per_jsonl # 0

\* ------------------------------------------------------------------ C6
\* C6: every shard written holds between 1 and D records, and a shard with
\* fewer than D records is the last chunk of its cell.
C6_ShardSizeBound ==
  /\ \A w \in written :
       /\ Len(w.lines) >= 1
       /\ Len(w.lines) <= docs_per_jsonl
       /\ Len(w.lines) < docs_per_jsonl =>
            /\ \A v \in WritesOf(w.cell) : v.seq <= w.seq
            /\ clines[w.cell] = << >>
  /\ \A i \in DOMAIN shards :
       Len(Lines(shards[i])) >= 1 /\ Len(Lines(shards[i])) <= docs_per_jsonl

\* a cell gave a full shard and then a shorter last one
C6_Witness ==
  \E w, v \in written :
    /\ w.cell = v.cell
    /\ w.seq < v.seq
    /\ Len(w.lines) = docs_per_jsonl
    /\ Len(v.lines) < docs_per_jsonl

\* ------------------------------------------------------------------ C7
\* C7: at the end of the coarse phase the records of the K cells are, as a
\* multiset, the records of all input documents.
C7_PartitionComplete ==
  (pc = "fine" /\ num_local_cells >= 1) => SealedRecords = InputRecords

\* ------------------------------------------------------------------ C8
\* C8: at the start of the coarse phase every one of the K cells is empty.
C8_CellsStartEmpty ==
  pc = "coarse" => \A k \in Cells : opened[k] = << >>

\* ------------------------------------------------------------------ C9
\* C9: the bytes of a cell (file, then buffer) are what it held when opened
\* followed by the appended lines, each whole and followed by LF; only the
\* line of the one task that holds the guard may still lack its last byte.
WholeLines(k) ==
  opened[k] \o Concat([i \in DOMAIN appended[k] |-> Terminated(appended[k][i])])

WritersOf(k) == {d \in Docs : dpc[d] = "writing" /\ didx[d] = k}

C9_WholeRecords ==
  pc \in {"coarse", "flush"} =>
    \A k \in Cells :
      /\ Cardinality(WritersOf(k)) <= 1
      /\ guard[k] = WritersOf(k)
      /\ LET all == WholeLines(k)
         IN cellFile[k] \o writers[k] =
              IF WritersOf(k) = {} THEN all ELSE SubSeq(all, 1, Len(all) - 1)

\* lines of both documents lie in the buffer of one cell
C9_Witness ==
  \E k \in Cells : bufOwner[k] = Docs /\ Len(appended[k]) >= 2

\* ------------------------------------------------------------------ C10
\* C10: once a task has panicked the run never returns a shard count, and a
\* panic in the coarse phase (document or flush task) keeps every cell task
\* from starting.
C10_FailFast ==
  /\ (DocPanicked \/ FlushPanicked \/ CellPanicked \/ pc = "failed")
       => (pc # "done" /\ result = << >>)
  /\ (DocPanicked \/ FlushPanicked) => \A k \in CellIds : cpc[k] = "idle"

\* the run failed on a shard write after another shard was written
C10_Witness ==
  /\ pc = "failed"
  /\ CellPanicked
  /\ written # {}

\* ------------------------------------------------------------------ C11
\* C11: a run configured with K = 0 or D = 0 never completes successfully.
C11_ZeroConfigFails ==
  (num_local_cells = 0 \/ docs_per_jsonl = 0) => ~Succeeded

\* ------------------------------------------------------------------ C12
\* C12: a step that removes a cell file is taken by the cell's own task after
\* it read the file, and after a shard was written for every line it read.
LinesWritten(k) == Sum([w \in WritesOf(k) |-> Len(w.lines)], WritesOf(k))

C12_CellDeletedAfterRead ==
  [][\A k \in CellIds :
       (cellExists[k] /\ ~cellExists'[k]) =>
         /\ cellReads[k] = 1
         /\ cpc[k] = "chunk"
         /\ clines[k] = << >>
         /\ LinesWritten(k) = Len(Lines(sealed[k]))
         /\ cellFile[k] = sealed[k]]_vars

\* a cell that held records was removed after its shards were written
C12_Witness ==
  \E k \in Cells :
    /\ pc \in {"fine", "done"}
    /\ ~cellExists[k]
    /\ cpc[k] = "done"
    /\ WritesOf(k) # {}

\* ------------------------------------------------------------------ C13
\* C13: when K exceeds the number of input records, at least K minus that
\* number of cells are empty at the end of the coarse phase; an empty cell
\* gives no shard and takes no shard number, and a successful run still has
\* dense shard numbers.
TotalRecords == Sum([d \in Docs |-> Len(Lines(docFile[d]))], Docs)
EmptyCells == {k \in Cells : Lines(sealed[k]) = << >>}

C13_SurplusCellsEmpty ==
  (pc \in {"fine", "done"} /\ docs_per_jsonl >= 1 /\ num_local_cells > TotalRecords) =>
    /\ Cardinality(EmptyCells) >= num_local_cells - TotalRecords
    /\ \A k \in EmptyCells : WritesOf(k) = {} /\ cpc[k] \notin {"count", "write"}
    /\ Succeeded => {w.id : w \in written} = 0..(Returned - 1)

\* ------------------------------------------------------------------ C14
\* C14 as stated: after a successful run a cell that held fewer than D
\* records gave exactly one shard.
C14_SmallCellOneShard ==
  Succeeded =>
    \A k \in Cells :
      Len(Lines(sealed[k])) < docs_per_jsonl => Cardinality(WritesOf(k)) = 1

\* C14 amended: after a successful run a cell that held at least one and
\* fewer than D records gave exactly one shard (an empty cell gave none).
C14_SmallNonEmptyCellOneShard ==
  Succeeded =>
    \A k \in Cells :
      /\ (Len(Lines(sealed[k])) >= 1 /\ Len(Lines(sealed[k])) < docs_per_jsonl)
           => Cardinality(WritesOf(k)) = 1
      /\ Len(Lines(sealed[k])) = 0 => WritesOf(k) = {}

\* a successful run with a cell of one record and D = 2
C14_Witness ==
  /\ Succeeded
  /\ \E k \in Cells :
       /\ Len(Lines(sealed[k])) >= 1
       /\ Len(Lines(sealed[k])) < docs_per_jsonl
       /\ Cardinality(WritesOf(k)) = 1

\* ------------------------------------------------------------------ C16
\* C16: no file is read twice; once the coarse phase is over every input
\* document was read exactly once, and after a successful run every cell was
\* read exactly once, as it was at the barrier; once the sink of a cell is
\* flushed nothing is appended to the sink or to the cell file (the file can
\* only be removed).
C16_SealedAndReadOnce ==
  /\ [](/\ \A d \in Docs : docReads[d] <= 1
        /\ \A k \in CellIds : cellReads[k] <= 1
        /\ pc \in {"flush", "fine", "done"} => \A d \in Docs : docReads[d] = 1
        /\ Succeeded => \A k \in Cells : cellReads[k] = 1)
  /\ [][\A k \in Cells :
          /\ fpc[k] = "done" =>
               /\ writers'[k] = << >>
               /\ cellFile'[k] = cellFile[k] \/ (cellExists[k] /\ ~cellExists'[k])
          /\ cellReads'[k] # cellReads[k] => (cellExists[k] => cellFile[k] = sealed[k])]_vars

\* a cell that received lines in the coarse phase was read, unchanged since
\* the barrier
C16_Witness ==
  \E k \in Cells :
    /\ pc = "fine"
    /\ cellReads[k] = 1
    /\ appended[k] # << >>
    /\ cellExists[k]
    /\ cellFile[k] = sealed[k]

\* ------------------------------------------------------------------ C17
\* C17: with K >= 1 and D >= 1, a fairly scheduled run in which no storage
\* operation ever fails eventually returns its shard count, that is, every
\* such run reaches a failure or its return ([]NoFailure => <>Succeeded
\* written as one eventuality); no document task ever holds the guards of
\* two cells.
NoFailure == ~DocPanicked /\ ~FlushPanicked /\ ~CellPanicked /\ pc # "failed"
GuardsHeld(d) == {k \in CellIds : d \in guard[k]}

C17_Terminates ==
  /\ [](\A d \in Docs : Cardinality(GuardsHeld(d)) <= 1)
  /\ (num_local_cells >= 1 /\ docs_per_jsonl >= 1) => <>(~NoFailure \/ Succeeded)

\* a run without failure succeeded after two lines went through the guard of
\* one cell
C17_Witness ==
  /\ Succeeded
  /\ NoFailure
  /\ \E k \in Cells : Len(appended[k]) >= 2

\* ------------------------------------------------------------------ C18
\* C18: output_file_count <= counter <= output_file_count + the number of
\* write_chunk calls in progress; a shard number is fetched before its shard
\* is written, so every shard written has a number below counter and no two
\* have the same; with no write_chunk in progress the counters are equal.
InProgress == {k \in CellIds : cpc[k] \in {"count", "write"}}

C18_Counters ==
  /\ output_file_count <= counter
  /\ counter <= output_file_count + Cardinality(InProgress)
  /\ InProgress = {} => counter = output_file_count
  /\ \A k \in InProgress : cnum[k] < counter
  /\ \A w \in written : w.id < counter
  /\ \A w, v \in written : w.id = v.id => w = v
  /\ DOMAIN shards = {w.id : w \in written}

\* two write_chunk calls in progress, one between the two fetch_add, after a
\* shard was written
C18_Witness ==
  /\ \E k1, k2 \in CellIds : cpc[k1] = "count" /\ cpc[k2] = "write"
  /\ counter = output_file_count + 1
  /\ written # {}

\* ------------------------------------------------------------------ C19
\* C19: every output shard holds the records of one chunk of one cell, taken
\* from the lines that cell task read from its own cell file, so no shard
\* mixes two cells; within one cell task the shard numbers of its successive
\* chunks are strictly increasing, not necessarily consecutive.
ChunksOf(k) == BagSum([w \in WritesOf(k) |-> BagOfSeq(w.lines)], WritesOf(k))

C19_ShardOfOneCell ==
  /\ \A i \in DOMAIN shards :
       \E w \in written :
         /\ w.id = i
         /\ shards[i] = ChunkBytes(w.lines)
         /\ \A v \in written : v.id = i => v.cell = w.cell
  /\ \A k \in CellIds :
       /\ ChunksOf(k) \sqsubseteq RecordBag(sealed[k])
       /\ WritesOf(k) # {} => cellReads[k] = 1
       /\ \A w, v \in WritesOf(k) : w.seq < v.seq => w.id < v.id

\* a cell task wrote two successive chunks and another cell's shard took
\* the number between them
C19_Witness ==
  \E k \in Cells : \E w, v \in WritesOf(k) : \E u \in written :
    /\ v.seq = w.seq + 1
    /\ w.id < u.id /\ u.id < v.id
    /\ u.cell # k

\* ------------------------------------------------------------------ C20
\* C20: when remove_locals is false nothing is ever deleted: every step
\* leaves the set of input documents and their contents unchanged and
\* removes no cell file, and once the cells are built all K cell files
\* exist for the rest of the run and after it.
C20_NothingDeleted ==
  /\ [][~remove_locals =>
          /\ docExists' = docExists
          /\ docFile' = docFile
          /\ \A k \in CellIds : cellExists[k] => cellExists'[k]]_vars
  /\ [](~remove_locals =>
          /\ \A d \in Docs : docExists[d]
          /\ pc \in {"coarse", "flush", "fine", "done"} =>
               \A k \in Cells : cellExists[k])

\* a run without deletion that went through both phases and wrote shards
C20_Witness ==
  /\ ~remove_locals
  /\ Succeeded
  /\ written # {}
  /\ \A d \in Docs : docReads[d] = 1
  /\ \A k \in Cells : cellReads[k] = 1 /\ cellExists[k]

====
